---- MODULE Spec2Model ----
(***************************************************************************)
(* Model of the actionlint MCP server (src/main.go): the two tool handlers *)
(* LintWorkflow and CheckAllWorkflows, the file system, environment and    *)
(* linting engine they call, and the JSON encoding of their results.       *)
(*                                                                         *)
(* Text is modelled as a sequence of tokens: each token is a chunk of      *)
(* bytes.  A token of InvalidUTF8 stands for a byte that is not valid      *)
(* UTF-8 (legal in a Linux file name), which encoding/json replaces by     *)
(* U+FFFD.                                                                 *)
(***************************************************************************)
EXTENDS Integers, Sequences, FiniteSets, TLC

VARIABLES
    fs,          \* the file system: path -> entry
    cfg,         \* state of .github/actionlint.yaml
    env,         \* environment variables SHELLCHECK_COMMAND, PYFLAKES_COMMAND
    pc,          \* position of the handler being served
    req,         \* arguments of the LintWorkflow call being served
    ret,         \* what LintWorkflow returned: result, error, effects
    directory,   \* CheckAllWorkflows: the directory searched
    files,       \* CheckAllWorkflows: the discovered files, in order
    idx,         \* CheckAllWorkflows: index of the next file to lint
    allResults,  \* CheckAllWorkflows: map file -> LintResult
    calls,       \* CheckAllWorkflows: files passed to LintWorkflow so far
    out,         \* what CheckAllWorkflows returned
    probe,       \* an engine output and the result built from it
    arg,         \* CheckAllWorkflows: params.Arguments.Directory
    prior,       \* an earlier LintWorkflow call: its arguments and its return
    ctx          \* CheckAllWorkflows: the caller's context, done or not

vars ==
    <<fs, cfg, env, pc, req, ret, directory, files, idx, allResults, calls, out,
      probe, arg, prior, ctx>>

----------------------------------------------------------------------------
(* Bounds *)

\* Longest document, in lines, that a request or a file carries.
MaxLines == 2

\* Longest list of diagnostics handed to the normalization on its own.
MaxErrs == 2

----------------------------------------------------------------------------
(* Text *)

Empty == <<>>

InvalidUTF8 == {"\\xFF"}

Replacement == "\\uFFFD"

\* encoding/json writes a string coerced to valid UTF-8.
JSONString(s) ==
    [i \in 1..Len(s) |-> IF s[i] \in InvalidUTF8 THEN Replacement ELSE s[i]]

HasPrefix(s, p) ==
    /\ Len(s) >= Len(p)
    /\ SubSeq(s, 1, Len(p)) = p

----------------------------------------------------------------------------
(* Paths and the file system *)

WfDir == <<"wf">>

MissingDir == <<"nodir">>

\* A directory whose name is a malformed glob pattern (an unclosed bracket).
BadPatternDir == <<"[">>

\* The default directory mistaken for the working directory.
DefaultDirectoryDot == <<".">>

DefaultDirectory == <<".github/workflows">>

Join(dir, name) == dir \o <<"/">> \o name

\* Names are <<stem, extension>>; the order is the byte order os.ReadDir
\* lists them in (upper case before lower case, 0xFF last).
WfNames ==
    << <<"README", ".md">>, <<"a", ".yaml">>, <<"b", ".yml">>,
       <<"c", ".YML">>, <<"sub">>, <<"\\xFF", ".yml">> >>

DefaultNames == << <<"ci", ".yml">> >>

BadPatternNames == << <<"w", ".yml">> >>

\* A file below a subdirectory of WfDir: Glob must not descend to it.
NestedPath == Join(Join(WfDir, <<"sub">>), <<"d", ".yml">>)

DirNames(dir) ==
    IF dir = WfDir THEN WfNames
    ELSE IF dir = DefaultDirectory THEN DefaultNames
    ELSE IF dir = BadPatternDir THEN BadPatternNames
    ELSE <<>>

PathA == Join(WfDir, <<"a", ".yaml">>)
PathB == Join(WfDir, <<"b", ".yml">>)
PathFF == Join(WfDir, <<"\\xFF", ".yml">>)
PathCI == Join(DefaultDirectory, <<"ci", ".yml">>)
PathW == Join(BadPatternDir, <<"w", ".yml">>)

LineTokens == {"ok", "syntax-check", "shellcheck", "expression"}

RECURSIVE SeqsUpTo(_, _)
SeqsUpTo(S, n) ==
    IF n = 0 THEN {<<>>}
    ELSE LET shorter == SeqsUpTo(S, n - 1)
         IN  shorter \cup {Append(s, x) : s \in {t \in shorter : Len(t) = n - 1}, x \in S}

\* Documents: a sequence of lines; the zero-byte document is <<>>.
Contents == SeqsUpTo(LineTokens, MaxLines)

\* Lines of spaces and tabs only, and lines indented with a tab.
BlankLines == {"   ", "\\t  "}
TabLines == {"\\ttest:"}

\* Documents whose lines are blank, tab-indented or well-formed.
ShapedContents == SeqsUpTo(BlankLines \cup TabLines \cup {"ok"}, MaxLines)

Absent == [kind |-> "absent", data |-> Empty]
Denied == [kind |-> "denied", data |-> Empty]
IsDir == [kind |-> "dir", data |-> Empty]
File(c) == [kind |-> "file", data |-> c]

\* What the files that vary between runs of the model may hold.
FileContents ==
    {Empty, <<"ok">>, <<"syntax-check">>, <<"shellcheck", "expression">>} \cap Contents

VaryingEntries == {Absent, Denied, IsDir} \cup {File(c) : c \in FileContents}

Lookup(path) == IF path \in DOMAIN fs THEN fs[path] ELSE Absent

\* os.ReadFile
ReadFile(path) ==
    LET e == Lookup(path) IN
    CASE e.kind = "file" ->
            [failed |-> FALSE, data |-> e.data, err |-> Empty]
      [] e.kind = "denied" ->
            [failed |-> TRUE, data |-> Empty,
             err |-> <<"open ">> \o path \o <<": permission denied">>]
      [] e.kind = "dir" ->
            [failed |-> TRUE, data |-> Empty,
             err |-> <<"read ">> \o path \o <<": is a directory">>]
      [] OTHER ->
            [failed |-> TRUE, data |-> Empty,
             err |-> <<"open ">> \o path \o <<": no such file or directory">>]

UpperCase(ext) ==
    IF ext = ".yml" THEN ".YML" ELSE IF ext = ".yaml" THEN ".YAML" ELSE ext

\* Glob matching the suffix whatever its case.
GlobIgnoreCase(dir, ext) ==
    LET names == DirNames(dir)
        Match(n) == /\ n[Len(n)] \in {ext, UpperCase(ext)}
                    /\ Lookup(Join(dir, n)).kind # "absent"
        hit == SelectSeq(names, Match)
    IN  [i \in 1..Len(hit) |-> Join(dir, hit[i])]

\* path.Match on the pattern: an unclosed bracket is malformed.
BadPattern(pattern) == \E i \in 1..Len(pattern) : pattern[i] = "["

\* The error of filepath.Glob: ErrBadPattern or nil.
GlobError(dir, ext) ==
    IF BadPattern(Join(dir, <<"*", ext>>))
    THEN <<"syntax error in pattern">> ELSE Empty

\* filepath.Glob(filepath.Join(dir, "*" + ext)): the immediate entries of dir
\* whose name ends in ext, whatever they are (files or directories), sorted;
\* no match at all when the pattern is malformed.
Glob(dir, ext) ==
    LET names == DirNames(dir)
        Match(n) == /\ n[Len(n)] = ext
                    /\ Lookup(Join(dir, n)).kind # "absent"
        hit == SelectSeq(names, Match)
    IN  IF GlobError(dir, ext) # Empty THEN <<>>
        ELSE [i \in 1..Len(hit) |-> Join(dir, hit[i])]

----------------------------------------------------------------------------
(* Configuration read on every call *)

ConfigFilePath == <<".github/actionlint.yaml">>

CfgStates == {"absent", "good", "malformed", "denied"}

Unset == Empty
GoodShellcheck == <<"shellcheck">>
BrokenShellcheck == <<"/bad/shellcheck">>
GoodPyflakes == <<"pyflakes">>

Envs ==
    { [SHELLCHECK_COMMAND |-> Unset, PYFLAKES_COMMAND |-> Unset],
      [SHELLCHECK_COMMAND |-> GoodShellcheck, PYFLAKES_COMMAND |-> GoodPyflakes],
      [SHELLCHECK_COMMAND |-> BrokenShellcheck, PYFLAKES_COMMAND |-> Unset] }

\* os.Stat(configFile) followed by os.IsNotExist(err)
StatIsNotExist == cfg = "absent"

\* os.Getenv
Getenv(name) == env[name]

----------------------------------------------------------------------------
(* The linting engine (github.com/rhysd/actionlint), at its interface *)

\* actionlint.NewLinter: fails when it is given a configuration file that it
\* cannot read or parse.
NewLinter(opts) ==
    IF opts.ConfigFile # Empty /\ cfg \in {"malformed", "denied", "absent"}
    THEN [failed |-> TRUE,
          err |-> <<"failed to load config ">> \o opts.ConfigFile]
    ELSE [failed |-> FALSE, err |-> Empty]

EngineError(message, line, column, kind) ==
    [Message |-> message, Line |-> line, Column |-> column, Kind |-> kind]

\* The diagnostics of one line of a document.
LineErrors(content, i, opts) ==
    LET t == content[i] IN
    CASE t = "ok" -> <<>>
      [] t \in BlankLines -> <<>>
      [] t \in TabLines ->
            <<EngineError(<<"found character that cannot start any token">>,
                          i, 1, "syntax-check")>>
      [] t = "shellcheck" ->
            IF opts.Shellcheck = Unset THEN <<>>
            ELSE <<EngineError(<<"shellcheck reported issue">>, i, 9, "shellcheck")>>
      [] OTHER -> <<EngineError(<<t, " violation">>, i, 1 + i, t)>>

RECURSIVE ErrorsFrom(_, _, _)
ErrorsFrom(content, i, opts) ==
    IF i > Len(content) THEN <<>>
    ELSE LineErrors(content, i, opts) \o ErrorsFrom(content, i + 1, opts)

\* linter.Lint(filePath, content, nil): the diagnostics in emission order,
\* or an error when an external checker cannot be run.
Lint(filePath, content, opts) ==
    IF /\ opts.Shellcheck = BrokenShellcheck
       /\ \E i \in 1..Len(content) : content[i] = "shellcheck"
    THEN [failed |-> TRUE, errs |-> <<>>,
          err |-> <<"failed to run ">> \o opts.Shellcheck]
    ELSE IF \A i \in 1..Len(content) : content[i] \in BlankLines
    THEN [failed |-> FALSE, err |-> Empty,
          errs |-> <<EngineError(<<"workflow is empty">>, 1, 1, "syntax-check")>>]
    ELSE [failed |-> FALSE, err |-> Empty, errs |-> ErrorsFrom(content, 1, opts)]

----------------------------------------------------------------------------
(* Result model *)

\* Severity without its default branch: an unmapped kind gets no severity.
SeverityNoDefault(kind) ==
    CASE kind \in {"syntax-check", "type-check"} -> "error"
      [] kind \in {"shellcheck", "pyflakes"} -> "warning"
      [] OTHER -> ""

\* switch e.Kind
Severity(kind) ==
    CASE kind \in {"syntax-check", "type-check"} -> "error"
      [] kind \in {"shellcheck", "pyflakes"} -> "warning"
      [] OTHER -> "info"

\* one iteration of `for _, e := range errs`
LintErrorOf(e) ==
    [Message |-> e.Message, Line |-> e.Line, Column |-> e.Column,
     Kind |-> e.Kind, Severity |-> Severity(e.Kind)]

\* ValidOf off by one: a single diagnostic still counts as valid.
ValidOfOffByOne(errs) == Len(errs) <= 1

\* Valid: len(errs) == 0
ValidOf(errs) == Len(errs) = 0

\* BuildResult with the diagnostics in reverse order.
BuildResultReversed(filePath, errs) ==
    [Errors |-> [i \in 1..Len(errs) |-> LintErrorOf(errs[Len(errs) + 1 - i])],
     Valid |-> ValidOf(errs),
     FilePath |-> filePath]

\* lines 94-121: result := LintResult{...} and the conversion loop
BuildResult(filePath, errs) ==
    [Errors |-> [i \in 1..Len(errs) |-> LintErrorOf(errs[i])],
     Valid |-> ValidOf(errs),
     FilePath |-> filePath]

JSONToken(t) == IF t \in InvalidUTF8 THEN Replacement ELSE t

\* json.Marshal of a LintError
MarshalLintError(e) ==
    [message |-> JSONString(e.Message), line |-> e.Line, column |-> e.Column,
     kind |-> JSONToken(e.Kind), severity |-> JSONToken(e.Severity)]

\* json.MarshalIndent of a LintResult: file_path is omitted when empty
MarshalLintResult(r) ==
    LET errors == [i \in 1..Len(r.Errors) |-> MarshalLintError(r.Errors[i])] IN
    IF r.FilePath = Empty
    THEN [errors |-> errors, valid |-> r.Valid]
    ELSE [errors |-> errors, valid |-> r.Valid, file_path |-> JSONString(r.FilePath)]

UnmarshalLintError(j) ==
    [Message |-> j.message, Line |-> j.line, Column |-> j.column,
     Kind |-> j.kind, Severity |-> j.severity]

\* json.Unmarshal into a zero LintResult: an absent member leaves the zero value
UnmarshalLintResult(j) ==
    [Errors |-> [i \in 1..Len(j.errors) |-> UnmarshalLintError(j.errors[i])],
     Valid |-> j.valid,
     FilePath |-> IF "file_path" \in DOMAIN j THEN j.file_path ELSE Empty]

----------------------------------------------------------------------------
(* LintWorkflow *)

\* The synthetic file name with the other extension.
InlineNameYaml == <<"inline.yaml">>

InlineName == <<"inline.yml">>

ErrMissingInput == <<"either file_path or content must be provided">>

Effect(op, path, data) == [op |-> op, path |-> path, data |-> data]

\* What a call returns and what it did: result is nil exactly when failed;
\* built is the LintResult of line 94, text the JSON of the content block.
Failure(err, effects) ==
    [failed |-> TRUE, err |-> err, built |-> <<>>, text |-> <<>>,
     effects |-> effects]

Success(result, effects) ==
    [failed |-> FALSE, err |-> Empty, built |-> <<result>>,
     text |-> <<MarshalLintResult(result)>>, effects |-> effects]

\* LinterOptions that names the configuration file without looking for it.
LinterOptionsConfigAlways ==
    [Shellcheck |-> Getenv("SHELLCHECK_COMMAND"),
     Pyflakes |-> Getenv("PYFLAKES_COMMAND"),
     ConfigFile |-> ConfigFilePath,
     IgnorePatterns |-> <<>>,
     Out |-> "io.Discard"]

\* The environment and the configuration file a server process starts with.
StartupEnv == [SHELLCHECK_COMMAND |-> Unset, PYFLAKES_COMMAND |-> Unset]
StartupCfg == "absent"

\* LinterOptions computed once, from what the process started with.
LinterOptionsAtStart ==
    [Shellcheck |-> StartupEnv["SHELLCHECK_COMMAND"],
     Pyflakes |-> StartupEnv["PYFLAKES_COMMAND"],
     ConfigFile |-> IF StartupCfg = "absent" THEN Empty ELSE ConfigFilePath,
     IgnorePatterns |-> <<>>,
     Out |-> "io.Discard"]

\* LinterOptions with the engine writing to the process's standard output.
LinterOptionsStdout ==
    [Shellcheck |-> Getenv("SHELLCHECK_COMMAND"),
     Pyflakes |-> Getenv("PYFLAKES_COMMAND"),
     ConfigFile |-> IF StatIsNotExist THEN Empty ELSE ConfigFilePath,
     IgnorePatterns |-> <<>>,
     Out |-> "os.Stdout"]

\* lines 68-80: the options the engine is constructed with
LinterOptions ==
    [Shellcheck |-> Getenv("SHELLCHECK_COMMAND"),
     Pyflakes |-> Getenv("PYFLAKES_COMMAND"),
     ConfigFile |-> IF StatIsNotExist THEN Empty ELSE ConfigFilePath,
     IgnorePatterns |-> <<>>,
     Out |-> "io.Discard"]

\* RunLinter returning the engine's construction error as it is, unwrapped.
RunLinterBareError(filePath, content, before) ==
    LET opts == LinterOptions
        e1 == before \o
              << Effect("Stat", ConfigFilePath, Empty),
                 Effect("Getenv", <<"SHELLCHECK_COMMAND">>, Empty),
                 Effect("Getenv", <<"PYFLAKES_COMMAND">>, Empty),
                 Effect("NewLinter", opts.ConfigFile, <<opts.Out>>) >>
        made == NewLinter(opts)
        e2 == Append(e1, Effect("Lint", filePath, content))
        run == Lint(filePath, content, opts)
    IN  IF made.failed
        THEN Failure(made.err, e1)
        ELSE IF run.failed
        THEN Failure(<<"linting failed: ">> \o run.err, e2)
        ELSE Success(BuildResult(filePath, run.errs), e2)

\* RunLinter that takes a zero-byte document for a valid one without running
\* the engine.
RunLinterSkipEmpty(filePath, content, before) ==
    LET opts == LinterOptions
        e1 == before \o
              << Effect("Stat", ConfigFilePath, Empty),
                 Effect("Getenv", <<"SHELLCHECK_COMMAND">>, Empty),
                 Effect("Getenv", <<"PYFLAKES_COMMAND">>, Empty),
                 Effect("NewLinter", opts.ConfigFile, <<opts.Out>>) >>
        made == NewLinter(opts)
        e2 == Append(e1, Effect("Lint", filePath, content))
        run == Lint(filePath, content, opts)
    IN  IF made.failed
        THEN Failure(<<"failed to create linter: ">> \o made.err, e1)
        ELSE IF content = Empty
        THEN Success(BuildResult(filePath, <<>>), e1)
        ELSE IF run.failed
        THEN Failure(<<"linting failed: ">> \o run.err, e2)
        ELSE Success(BuildResult(filePath, run.errs), e2)

\* RunLinter reporting a failure of the engine as a result with one
\* diagnostic, and linting after a failed construction.
RunLinterFailureAsResult(filePath, content, before) ==
    LET opts == LinterOptions
        e1 == before \o
              << Effect("Stat", ConfigFilePath, Empty),
                 Effect("Getenv", <<"SHELLCHECK_COMMAND">>, Empty),
                 Effect("Getenv", <<"PYFLAKES_COMMAND">>, Empty),
                 Effect("NewLinter", opts.ConfigFile, <<opts.Out>>) >>
        made == NewLinter(opts)
        e2 == Append(e1, Effect("Lint", filePath, content))
        run == Lint(filePath, content, opts)
    IN  IF made.failed
        THEN Success(BuildResult(filePath,
                        <<EngineError(made.err, 0, 0, "syntax-check")>>), e2)
        ELSE IF run.failed
        THEN Success(BuildResult(filePath,
                        <<EngineError(run.err, 0, 0, "syntax-check")>>), e2)
        ELSE Success(BuildResult(filePath, run.errs), e2)

\* lines 68-135: from the resolved input to the return
RunLinter(filePath, content, before) ==
    LET opts == LinterOptions
        e1 == before \o
              << Effect("Stat", ConfigFilePath, Empty),
                 Effect("Getenv", <<"SHELLCHECK_COMMAND">>, Empty),
                 Effect("Getenv", <<"PYFLAKES_COMMAND">>, Empty),
                 Effect("NewLinter", opts.ConfigFile, <<opts.Out>>) >>
        made == NewLinter(opts)
        e2 == Append(e1, Effect("Lint", filePath, content))
        run == Lint(filePath, content, opts)
    IN  IF made.failed
        THEN Failure(<<"failed to create linter: ">> \o made.err, e1)
        ELSE IF run.failed
        THEN Failure(<<"linting failed: ">> \o run.err, e2)
        ELSE Success(BuildResult(filePath, run.errs), e2)

\* LintWorkflow without its default case: an empty request is linted as
\* inline content.
LintWorkflowNoDefault(params) ==
    IF params.FilePath # Empty
    THEN LET read == ReadFile(params.FilePath)
             e0 == <<Effect("ReadFile", params.FilePath, Empty)>>
         IN  IF read.failed
             THEN Failure(<<"failed to read file: ">> \o read.err, e0)
             ELSE RunLinter(params.FilePath, read.data, e0)
    ELSE RunLinter(InlineName, params.Content, <<>>)

\* LintWorkflow falling back to the inline content when the file cannot be
\* read.
LintWorkflowFallback(params) ==
    LET read == ReadFile(params.FilePath)
        e0 == <<Effect("ReadFile", params.FilePath, Empty)>>
    IN  IF params.FilePath # Empty /\ ~read.failed
        THEN RunLinter(params.FilePath, read.data, e0)
        ELSE IF params.Content # Empty
        THEN RunLinter(InlineName, params.Content,
                       IF params.FilePath # Empty THEN e0 ELSE <<>>)
        ELSE Failure(ErrMissingInput, IF params.FilePath # Empty THEN e0 ELSE <<>>)

\* LintWorkflow with the cases of the switch in the other order: inline
\* content wins over the path.
LintWorkflowContentFirst(params) ==
    IF params.Content # Empty
    THEN RunLinter(InlineName, params.Content, <<>>)
    ELSE IF params.FilePath # Empty
    THEN LET read == ReadFile(params.FilePath)
             e0 == <<Effect("ReadFile", params.FilePath, Empty)>>
         IN  IF read.failed
             THEN Failure(<<"failed to read file: ">> \o read.err, e0)
             ELSE RunLinter(params.FilePath, read.data, e0)
    ELSE Failure(ErrMissingInput, <<>>)

\* LintWorkflow that trims the inline content before looking at it: content
\* of blank lines only is missing input, and the engine gets the content
\* without its blank lines.
LintWorkflowTrimSpace(params) ==
    LET trimmed == SelectSeq(params.Content, LAMBDA t : t \notin BlankLines)
    IN  IF params.FilePath # Empty
        THEN LET read == ReadFile(params.FilePath)
                 e0 == <<Effect("ReadFile", params.FilePath, Empty)>>
             IN  IF read.failed
                 THEN Failure(<<"failed to read file: ">> \o read.err, e0)
                 ELSE RunLinter(params.FilePath, read.data, e0)
        ELSE IF trimmed # Empty
        THEN RunLinter(InlineName, trimmed, <<>>)
        ELSE Failure(ErrMissingInput, <<>>)

\* lines 54-66: which input is linted
LintWorkflow(params) ==
    IF params.FilePath # Empty
    THEN LET read == ReadFile(params.FilePath)
             e0 == <<Effect("ReadFile", params.FilePath, Empty)>>
         IN  IF read.failed
             THEN Failure(<<"failed to read file: ">> \o read.err, e0)
             ELSE RunLinter(params.FilePath, read.data, e0)
    ELSE IF params.Content # Empty
    THEN RunLinter(InlineName, params.Content, <<>>)
    ELSE Failure(ErrMissingInput, <<>>)

----------------------------------------------------------------------------
(* CheckAllWorkflows *)

\* lines 176-183: the entry that stands for a failed LintWorkflow call
FailedResult(file, err) ==
    [Errors |-> << [Message |-> <<"Failed to lint: ">> \o err, Line |-> 0,
                    Column |-> 0, Kind |-> "", Severity |-> "error"] >>,
     Valid |-> FALSE,
     FilePath |-> file]

\* m[k] = v on a Go map
MapSet(m, k, v) ==
    [x \in DOMAIN m \cup {k} |-> IF x = k THEN v ELSE m[x]]

\* StoreResult that skips a failed file instead of recording it.
StoreResultSkipFailed(results, file, r) ==
    IF r.failed
    THEN results
    ELSE IF Len(r.text) > 0
    THEN MapSet(results, file, UnmarshalLintResult(r.text[1]))
    ELSE results

\* StoreResult over a result slot shared by every call in the process: the
\* iteration stores whatever call wrote the slot last.
StoreResultShared(results, file, r) ==
    LET last == IF ret.failed \/ Len(ret.text) > 0 THEN ret ELSE r
    IN  IF last.failed
        THEN MapSet(results, file, FailedResult(file, last.err))
        ELSE IF Len(last.text) > 0
        THEN MapSet(results, file, UnmarshalLintResult(last.text[1]))
        ELSE results

\* lines 174-195: what one iteration of the loop leaves in allResults
StoreResult(results, file, r) ==
    IF r.failed
    THEN MapSet(results, file, FailedResult(file, r.err))
    ELSE IF Len(r.text) > 0
    THEN MapSet(results, file, UnmarshalLintResult(r.text[1]))
    ELSE results

\* CountOne that counts one error per invalid file.
CountOnePerFile(acc, result) ==
    IF ~result.Valid
    THEN [files_with_errors |-> acc.files_with_errors + 1,
          total_errors |-> acc.total_errors + 1]
    ELSE acc

\* CountOne that counts every file as a file with errors.
CountOneEvery(acc, result) ==
    [files_with_errors |-> acc.files_with_errors + 1,
     total_errors |-> acc.total_errors + Len(result.Errors)]

\* lines 207-210: one iteration of the counting loop
CountOne(acc, result) ==
    IF ~result.Valid
    THEN [files_with_errors |-> acc.files_with_errors + 1,
          total_errors |-> acc.total_errors + Len(result.Errors)]
    ELSE acc

\* lines 206-211: for _, result := range allResults
RECURSIVE CountAll(_, _, _)
CountAll(results, todo, acc) ==
    IF todo = {} THEN acc
    ELSE LET k == CHOOSE x \in todo : TRUE
         IN  CountAll(results, todo \ {k}, CountOne(acc, results[k]))

\* lines 199-211: the summary map
\* Summary whose counters stop at the first discovered file.
SummaryFirstFile(found, results) ==
    LET n == CountAll(results, DOMAIN results \cap {found[1]},
                      [files_with_errors |-> 0, total_errors |-> 0])
    IN  [total_files |-> Len(found),
         files_with_errors |-> n.files_with_errors,
         total_errors |-> n.total_errors,
         results |-> results]

Summary(found, results) ==
    LET n == CountAll(results, DOMAIN results,
                      [files_with_errors |-> 0, total_errors |-> 0])
    IN  [total_files |-> Len(found),
         files_with_errors |-> n.files_with_errors,
         total_errors |-> n.total_errors,
         results |-> results]

\* json.MarshalIndent(summary): one member of "results" per map entry, its
\* name the key coerced to valid UTF-8
MarshalSummary(s) ==
    [total_files |-> s.total_files,
     files_with_errors |-> s.files_with_errors,
     total_errors |-> s.total_errors,
     results |-> [k \in DOMAIN s.results |->
                    [name |-> JSONString(k),
                     value |-> MarshalLintResult(s.results[k])]]]

\* NoFilesMessage naming the default directory, not the one searched.
NoFilesMessageDefault(dir) == <<"No workflow files found in ">> \o DefaultDirectory

\* line 157
NoFilesMessage(dir) == <<"No workflow files found in ">> \o dir

----------------------------------------------------------------------------
(* The server: one call is served at a time *)

RequestPaths == {Empty, PathA, PathFF}

DirectoryArgs == {Empty, WfDir, MissingDir, DefaultDirectory, BadPatternDir}

NoRequest == [FilePath |-> Empty, Content |-> Empty]

NoReturn ==
    [failed |-> FALSE, err |-> Empty, built |-> <<>>, text |-> <<>>,
     effects |-> <<>>]

NoOutput ==
    [failed |-> FALSE, err |-> Empty, message |-> Empty, summary |-> <<>>,
     text |-> <<>>]

NoProbe == [done |-> FALSE, path |-> Empty, errs |-> <<>>, built |-> <<>>, text |-> <<>>]

FixedFiles ==
    [p \in {Join(WfDir, <<"README", ".md">>), Join(WfDir, <<"c", ".YML">>),
            Join(WfDir, <<"sub">>), NestedPath, PathCI, PathW} |->
        IF p = Join(WfDir, <<"sub">>) THEN IsDir
        ELSE IF p \in {PathCI, PathW} THEN File(<<"ok">>)
        ELSE File(<<"syntax-check">>)]

NoPrior == <<>>

\* A context that is not done.  A done context is <<n>>: its deadline fired
\* or it was cancelled when n validations of the call had completed.
NotDone == <<>>

FileSystems ==
    {[p \in DOMAIN FixedFiles \cup {PathA, PathB, PathFF} |->
        IF p = PathA THEN a
        ELSE IF p = PathB THEN b
        ELSE IF p = PathFF THEN f
        ELSE IF p = PathCI THEN c
        ELSE FixedFiles[p]] :
     a \in VaryingEntries, b \in VaryingEntries,
     f \in {Absent, File(<<"ok">>)}, c \in {Absent, File(<<"ok">>)}}

Init ==
    /\ fs \in FileSystems
    /\ cfg \in CfgStates
    /\ env \in Envs
    /\ pc = "idle"
    /\ req = NoRequest
    /\ ret = NoReturn
    /\ directory = Empty
    /\ files = <<>>
    /\ idx = 0
    /\ allResults = <<>>
    /\ calls = <<>>
    /\ out = NoOutput
    /\ probe = NoProbe
    /\ arg = Empty
    /\ prior = NoPrior
    /\ ctx = NotDone

\* The remembered call, with one more call served after it.
ServedSince(p, op) ==
    [i \in 1..Len(p) |-> [p[i] EXCEPT !.later = p[i].later \cup {op}]]

\* A lint_workflow call served by a linter kept from the remembered call,
\* which still holds that call's diagnostics.
CallLintWorkflowReusedLinter ==
    /\ pc = "idle"
    /\ \E p \in RequestPaths, c \in Contents :
          LET r == LintWorkflow([FilePath |-> p, Content |-> c])
              kept == IF prior # NoPrior /\ ~prior[1].ret.failed
                      THEN prior[1].ret.built[1].Errors ELSE <<>>
              both == [Errors |-> kept \o r.built[1].Errors,
                       Valid |-> Len(kept) + Len(r.built[1].Errors) = 0,
                       FilePath |-> r.built[1].FilePath]
          IN  /\ req' = [FilePath |-> p, Content |-> c]
              /\ ret' = IF r.failed THEN r ELSE Success(both, r.effects)
    /\ pc' = "linted"
    /\ UNCHANGED <<ctx, fs, cfg, env, directory, files, idx, allResults, calls, out, probe,
                   arg, prior>>

\* A lint_workflow call, served from its arguments to its return.
CallLintWorkflow ==
    /\ pc = "idle"
    /\ \E p \in RequestPaths, c \in Contents :
          /\ req' = [FilePath |-> p, Content |-> c]
          /\ ret' = LintWorkflow([FilePath |-> p, Content |-> c])
    /\ pc' = "linted"
    /\ UNCHANGED <<ctx, fs, cfg, env, directory, files, idx, allResults, calls, out, probe,
                   arg, prior>>

\* Discover that returns the error of filepath.Glob to its caller.
DiscoverGlobError ==
    /\ pc = "idle"
    /\ \E d \in DirectoryArgs :
          LET dir == IF d # Empty THEN d ELSE DefaultDirectory
              found == Glob(dir, ".yml") \o Glob(dir, ".yaml")
          IN  /\ arg' = d
              /\ directory' = dir
              /\ files' = found
              /\ IF GlobError(dir, ".yml") # Empty
                 THEN /\ pc' = "returned"
                      /\ out' = [NoOutput EXCEPT !.failed = TRUE,
                                                 !.err = GlobError(dir, ".yml")]
                      /\ idx' = idx
                 ELSE IF Len(found) = 0
                 THEN /\ pc' = "returned"
                      /\ out' = [NoOutput EXCEPT !.message = NoFilesMessage(dir)]
                      /\ idx' = idx
                 ELSE /\ pc' = "loop"
                      /\ out' = out
                      /\ idx' = 1
    /\ allResults' = <<>>
    /\ calls' = <<>>
    /\ UNCHANGED <<ctx, fs, cfg, env, req, ret, probe, prior>>

\* lines 139-164: the directory is resolved and searched
Discover ==
    /\ pc = "idle"
    /\ \E d \in DirectoryArgs :
          LET dir == IF d # Empty THEN d ELSE DefaultDirectory
              found == Glob(dir, ".yml") \o Glob(dir, ".yaml")
          IN  /\ arg' = d
              /\ directory' = dir
              /\ files' = found
              /\ IF Len(found) = 0
                 THEN /\ pc' = "returned"
                      /\ out' = [NoOutput EXCEPT !.message = NoFilesMessage(dir)]
                      /\ idx' = idx
                 ELSE /\ pc' = "loop"
                      /\ out' = out
                      /\ idx' = 1
    /\ allResults' = <<>>
    /\ calls' = <<>>
    /\ UNCHANGED <<ctx, fs, cfg, env, req, ret, probe, prior>>

\* LintNext that leaves the loop when the call for a file fails.
LintNextStopOnFailure ==
    /\ pc = "loop"
    /\ idx <= Len(files)
    /\ LET file == files[idx]
           r == LintWorkflow([FilePath |-> file, Content |-> Empty])
       IN  /\ allResults' = StoreResult(allResults, file, r)
           /\ calls' = Append(calls, file)
           /\ idx' = IF r.failed THEN Len(files) + 1 ELSE idx + 1
    /\ UNCHANGED <<ctx, fs, cfg, env, pc, req, ret, directory, files, out, probe, arg,
                   prior>>

\* lines 166-196: one iteration of `for _, file := range files`
LintNext ==
    /\ pc = "loop"
    /\ idx <= Len(files)
    /\ LET file == files[idx]
           r == LintWorkflow([FilePath |-> file, Content |-> Empty])
       IN  /\ allResults' = StoreResult(allResults, file, r)
           /\ calls' = Append(calls, file)
    /\ idx' = idx + 1
    /\ UNCHANGED <<ctx, fs, cfg, env, pc, req, ret, directory, files, out, probe, arg,
                   prior>>

\* Summarize that does not wait for the loop to end: the counters are
\* computed over the entries written so far.
SummarizeEarly ==
    /\ pc = "loop"
    /\ LET s == Summary(files, allResults)
       IN  out' = [NoOutput EXCEPT !.summary = <<s>>,
                                   !.text = <<MarshalSummary(s)>>]
    /\ pc' = "returned"
    /\ UNCHANGED <<ctx, fs, cfg, env, req, ret, directory, files, idx, allResults, calls,
                   probe, arg, prior>>

\* lines 198-225: the summary is built, encoded and returned
Summarize ==
    /\ pc = "loop"
    /\ idx > Len(files)
    /\ LET s == Summary(files, allResults)
       IN  out' = [NoOutput EXCEPT !.summary = <<s>>,
                                   !.text = <<MarshalSummary(s)>>]
    /\ pc' = "returned"
    /\ UNCHANGED <<ctx, fs, cfg, env, req, ret, directory, files, idx, allResults, calls,
                   probe, arg, prior>>

\* The transport has the response; the server waits for the next call.
Return ==
    /\ pc \in {"linted", "returned"}
    /\ pc' = "idle"
    /\ req' = NoRequest
    /\ ret' = NoReturn
    /\ directory' = Empty
    /\ files' = <<>>
    /\ idx' = 0
    /\ allResults' = <<>>
    /\ calls' = <<>>
    /\ out' = NoOutput
    /\ arg' = Empty
    /\ prior' = ServedSince(prior, IF pc = "linted" THEN "LintWorkflow"
                                   ELSE "CheckAllWorkflows")
    /\ ctx' = NotDone
    /\ UNCHANGED <<fs, cfg, env, probe>>

Next ==
    \/ CallLintWorkflow
    \/ Discover
    \/ LintNext
    \/ Summarize
    \/ Return

Spec == Init /\ [][Next]_vars

----------------------------------------------------------------------------
(* Repeated calls: the caller keeps the return of one call and calls again *)

RepeatFileSystem ==
    [p \in DOMAIN FixedFiles \cup {PathA, PathB, PathFF} |->
        IF p = PathA THEN File(<<"shellcheck", "expression">> )
        ELSE IF p = PathB THEN Denied
        ELSE IF p = PathFF THEN File(<<"ok">>)
        ELSE FixedFiles[p]]

InitRepeat ==
    /\ fs = RepeatFileSystem
    /\ cfg = "absent"
    /\ env \in Envs
    /\ pc = "idle"
    /\ req = NoRequest
    /\ ret = NoReturn
    /\ directory = Empty
    /\ files = <<>>
    /\ idx = 0
    /\ allResults = <<>>
    /\ calls = <<>>
    /\ out = NoOutput
    /\ probe = NoProbe
    /\ arg = Empty
    /\ prior = NoPrior
    /\ ctx = NotDone

\* The caller of a LintWorkflow call keeps what it returned.
Remember ==
    /\ pc = "linted"
    /\ prior = NoPrior
    /\ prior' = <<[req |-> req, ret |-> ret, later |-> {}]>>
    /\ UNCHANGED <<ctx, fs, cfg, env, pc, req, ret, directory, files, idx, allResults,
                   calls, out, probe, arg>>

NextRepeat ==
    \/ CallLintWorkflow
    \/ Discover
    \/ LintNext
    \/ Summarize
    \/ Return
    \/ Remember

SpecRepeat == InitRepeat /\ [][NextRepeat]_vars

----------------------------------------------------------------------------
(* Concurrent calls: the transport serves a LintWorkflow call and a
   CheckAllWorkflows call at the same time, each in its own goroutine.  The
   LintWorkflow call holds req and ret, the CheckAllWorkflows call holds pc,
   arg, directory, files, idx, allResults, calls and out. *)

\* line 49: the call is entered with its arguments
BeginLintWorkflow ==
    /\ req = NoRequest
    /\ \E p \in RequestPaths, c \in Contents :
          req' = [FilePath |-> p, Content |-> c]
    /\ UNCHANGED <<ctx, fs, cfg, env, pc, ret, directory, files, idx, allResults, calls,
                   out, probe, arg, prior>>

\* lines 50-135: the call runs on its own arguments and locals
EndLintWorkflow ==
    /\ req # NoRequest
    /\ ret = NoReturn
    /\ ret' = LintWorkflow(req)
    /\ UNCHANGED <<ctx, fs, cfg, env, pc, req, directory, files, idx, allResults, calls,
                   out, probe, arg, prior>>

\* The transport has the response of the LintWorkflow call.
ReturnLintWorkflow ==
    /\ ret # NoReturn
    /\ req' = NoRequest
    /\ ret' = NoReturn
    /\ UNCHANGED <<ctx, fs, cfg, env, pc, directory, files, idx, allResults, calls, out,
                   probe, arg, prior>>

\* The transport has the response of the CheckAllWorkflows call.
ReturnCheckAllWorkflows ==
    /\ pc = "returned"
    /\ pc' = "idle"
    /\ directory' = Empty
    /\ files' = <<>>
    /\ idx' = 0
    /\ allResults' = <<>>
    /\ calls' = <<>>
    /\ out' = NoOutput
    /\ arg' = Empty
    /\ UNCHANGED <<ctx, fs, cfg, env, req, ret, probe, prior>>

NextConcurrent ==
    \/ BeginLintWorkflow
    \/ EndLintWorkflow
    \/ ReturnLintWorkflow
    \/ Discover
    \/ LintNext
    \/ Summarize
    \/ ReturnCheckAllWorkflows

SpecConcurrent == InitRepeat /\ [][NextConcurrent]_vars

----------------------------------------------------------------------------
(* Calls whose inline content is blank, tab-indented or well-formed *)

\* A lint_workflow call, served from its arguments to its return.
CallLintWorkflowShaped ==
    /\ pc = "idle"
    /\ \E p \in RequestPaths, c \in ShapedContents :
          /\ req' = [FilePath |-> p, Content |-> c]
          /\ ret' = LintWorkflow([FilePath |-> p, Content |-> c])
    /\ pc' = "linted"
    /\ UNCHANGED <<ctx, fs, cfg, env, directory, files, idx, allResults, calls, out, probe,
                   arg, prior>>

NextShaped ==
    \/ CallLintWorkflowShaped
    \/ Return

SpecShaped == InitRepeat /\ [][NextShaped]_vars

----------------------------------------------------------------------------
(* A server whose environment variables and configuration file change
   between calls *)

InitReconfigure ==
    /\ fs = RepeatFileSystem
    /\ cfg = StartupCfg
    /\ env = StartupEnv
    /\ pc = "idle"
    /\ req = NoRequest
    /\ ret = NoReturn
    /\ directory = Empty
    /\ files = <<>>
    /\ idx = 0
    /\ allResults = <<>>
    /\ calls = <<>>
    /\ out = NoOutput
    /\ probe = NoProbe
    /\ arg = Empty
    /\ prior = NoPrior
    /\ ctx = NotDone

\* os.Setenv in the server's process, between two calls
Setenv ==
    /\ pc = "idle"
    /\ env' \in Envs \ {env}
    /\ UNCHANGED <<ctx, fs, cfg, pc, req, ret, directory, files, idx, allResults, calls,
                   out, probe, arg, prior>>

\* .github/actionlint.yaml is written, replaced or removed between two calls
WriteConfigFile ==
    /\ pc = "idle"
    /\ cfg' \in CfgStates \ {cfg}
    /\ UNCHANGED <<ctx, fs, env, pc, req, ret, directory, files, idx, allResults, calls,
                   out, probe, arg, prior>>

NextReconfigure ==
    \/ CallLintWorkflow
    \/ Discover
    \/ LintNext
    \/ Summarize
    \/ Return
    \/ Setenv
    \/ WriteConfigFile

SpecReconfigure == InitReconfigure /\ [][NextReconfigure]_vars

----------------------------------------------------------------------------
(* A CheckAllWorkflows call whose caller's context becomes done while the
   loop runs.  The handler's context parameter is the blank identifier
   (line 138) and every LintWorkflow call gets context.Background()
   (line 174), so no step of the handler reads ctx. *)

\* The deadline of the caller's context fires, or the caller cancels it.
Cancel ==
    /\ pc = "loop"
    /\ idx <= Len(files)
    /\ ctx = NotDone
    /\ ctx' = <<Len(calls)>>
    /\ UNCHANGED <<fs, cfg, env, pc, req, ret, directory, files, idx, allResults,
                   calls, out, probe, arg, prior>>

NextDeadline ==
    \/ Discover
    \/ LintNext
    \/ Summarize
    \/ Return
    \/ Cancel

SpecDeadline == Init /\ [][NextDeadline]_vars

InitDeadline ==
    /\ fs = RepeatFileSystem
    /\ cfg \in {"absent", "malformed"}
    /\ env \in Envs
    /\ pc = "idle"
    /\ req = NoRequest
    /\ ret = NoReturn
    /\ directory = Empty
    /\ files = <<>>
    /\ idx = 0
    /\ allResults = <<>>
    /\ calls = <<>>
    /\ out = NoOutput
    /\ probe = NoProbe
    /\ arg = Empty
    /\ prior = NoPrior
    /\ ctx = NotDone

\* The handler's goroutine keeps running: an iteration whose LintWorkflow call
\* returns is followed by the next, and the end of the loop by the summary.
SpecDeadlineFair ==
    /\ InitDeadline
    /\ [][NextDeadline]_vars
    /\ WF_vars(LintNext)
    /\ WF_vars(Summarize)

----------------------------------------------------------------------------
(* The loop and the summary of lines 163-216 over the discovered files in
   any order *)

\* The sequences that list the elements of found once each.
Orderings(found) ==
    {p \in [1..Len(found) -> {found[i] : i \in 1..Len(found)}] :
        \A i, j \in 1..Len(found) : p[i] = p[j] => i = j}

\* lines 139-164, with the discovered files handed to the loop in any order
DiscoverInOrder ==
    /\ pc = "idle"
    /\ \E d \in DirectoryArgs :
          LET dir == IF d # Empty THEN d ELSE DefaultDirectory
              found == Glob(dir, ".yml") \o Glob(dir, ".yaml")
          IN  /\ arg' = d
              /\ directory' = dir
              /\ files' \in Orderings(found)
              /\ IF Len(found) = 0
                 THEN /\ pc' = "returned"
                      /\ out' = [NoOutput EXCEPT !.message = NoFilesMessage(dir)]
                      /\ idx' = idx
                 ELSE /\ pc' = "loop"
                      /\ out' = out
                      /\ idx' = 1
    /\ allResults' = <<>>
    /\ calls' = <<>>
    /\ UNCHANGED <<ctx, fs, cfg, env, req, ret, probe, prior>>

NextOrder ==
    \/ DiscoverInOrder
    \/ LintNext
    \/ Summarize
    \/ Return

SpecOrder == Init /\ [][NextOrder]_vars

----------------------------------------------------------------------------
(* The normalization of lines 93-124 on its own, for any engine output *)

Kinds ==
    {"syntax-check", "type-check", "shellcheck", "pyflakes", "expression",
     "", "future-kind"}

ProbeErrors ==
    {EngineError(<<"finding">>, 3, 7, k) : k \in Kinds}
        \cup {EngineError(<<"no position">>, 0, 0, "syntax-check")}

InitNormalize ==
    /\ fs = FixedFiles
    /\ cfg = "absent"
    /\ env \in Envs
    /\ pc = "idle"
    /\ req = NoRequest
    /\ ret = NoReturn
    /\ directory = Empty
    /\ files = <<>>
    /\ idx = 0
    /\ allResults = <<>>
    /\ calls = <<>>
    /\ out = NoOutput
    /\ arg = Empty
    /\ prior = NoPrior
    /\ ctx = NotDone
    /\ \E p \in {InlineName, PathFF}, errs \in SeqsUpTo(ProbeErrors, MaxErrs) :
          probe = [NoProbe EXCEPT !.path = p, !.errs = errs]

\* lines 93-124 applied to the engine output drawn
Normalize ==
    /\ ~probe.done
    /\ LET result == BuildResult(probe.path, probe.errs)
       IN  probe' = [probe EXCEPT !.done = TRUE,
                                  !.built = <<result>>,
                                  !.text = <<MarshalLintResult(result)>>]
    /\ UNCHANGED <<ctx, fs, cfg, env, pc, req, ret, directory, files, idx, allResults,
                   calls, out, arg, prior>>

NextNormalize == Normalize

SpecNormalize == InitNormalize /\ [][NextNormalize]_vars

----------------------------------------------------------------------------
(* Properties *)

Linted == pc = "linted"

Summarized == pc = "returned" /\ Len(out.summary) = 1

EffectOps(r) == {r.effects[i].op : i \in 1..Len(r.effects)}

\* The document a request resolves to when its input can be read.
ResolvedName(r) == IF r.FilePath # Empty THEN r.FilePath ELSE InlineName

ResolvedContent(r) ==
    IF r.FilePath # Empty THEN ReadFile(r.FilePath).data ELSE r.Content

\* What the engine answers for the document of a request.
EngineAnswer(r) == Lint(ResolvedName(r), ResolvedContent(r), LinterOptions)

ValidIffNoErrors(r) == r.Valid <=> (Len(r.Errors) = 0)

\* C1: a request with neither file_path nor content returns a nil result and
\* the error "either file_path or content must be provided", having touched
\* neither the file system nor the engine.
C1_MissingInput ==
    (Linted /\ req.FilePath = Empty /\ req.Content = Empty) =>
        /\ ret.failed
        /\ ret.built = <<>>
        /\ ret.text = <<>>
        /\ ret.err = <<"either file_path or content must be provided">>
        /\ ret.effects = <<>>

C1_Witness ==
    /\ Linted
    /\ req.FilePath = Empty
    /\ req.Content = Empty
    /\ ret.failed

\* C2: in every result object (the result LintWorkflow builds, its JSON
\* payload, every entry of allResults while it is filled and in the summary
\* returned, synthetic failure entries included) valid is true exactly when
\* the errors list is empty.
C2_ValidIffEmpty ==
    /\ \A i \in 1..Len(ret.built) : ValidIffNoErrors(ret.built[i])
    /\ \A i \in 1..Len(ret.text) :
          ret.text[i].valid <=> (Len(ret.text[i].errors) = 0)
    /\ \A f \in DOMAIN allResults : ValidIffNoErrors(allResults[f])
    /\ \A i \in 1..Len(out.summary) :
          \A f \in DOMAIN out.summary[i].results :
              ValidIffNoErrors(out.summary[i].results[f])
    /\ \A i \in 1..Len(out.text) :
          \A f \in DOMAIN out.text[i].results :
              LET v == out.text[i].results[f].value
              IN  v.valid <=> (Len(v.errors) = 0)

C2_Witness ==
    /\ Summarized
    /\ LET results == out.summary[1].results
       IN  /\ \E f \in DOMAIN results : results[f].Valid
           /\ \E f \in DOMAIN results :
                 /\ ~results[f].Valid
                 /\ Len(results[f].Errors) = 1
                 /\ HasPrefix(results[f].Errors[1].Message, <<"Failed to lint: ">>)
           /\ \E f \in DOMAIN results :
                 /\ ~results[f].Valid
                 /\ results[f].Errors[1].Kind # ""

RECURSIVE SumOfErrors(_, _)
SumOfErrors(results, todo) ==
    IF todo = {} THEN 0
    ELSE LET k == CHOOSE x \in todo : TRUE
         IN  Len(results[k].Errors) + SumOfErrors(results, todo \ {k})

\* C3: in a summary, files_with_errors is the number of entries of results
\* with valid = false and total_errors is the sum of the lengths of the errors
\* lists of all entries.
C3_SummaryCounters ==
    Summarized =>
        LET s == out.summary[1] IN
        /\ s.files_with_errors =
              Cardinality({f \in DOMAIN s.results : ~s.results[f].Valid})
        /\ s.total_errors = SumOfErrors(s.results, DOMAIN s.results)
        /\ out.text[1].files_with_errors = s.files_with_errors
        /\ out.text[1].total_errors = s.total_errors

C3_Witness ==
    /\ Summarized
    /\ LET s == out.summary[1]
       IN  /\ \E f \in DOMAIN s.results : Len(s.results[f].Errors) = 2
           /\ \E f \in DOMAIN s.results : s.results[f].Valid
           /\ s.files_with_errors = 2
           /\ s.total_errors = 3

FileSet == {files[i] : i \in 1..Len(files)}

\* C4: when at least one file is discovered, results holds exactly one entry
\* per discovered file, keyed by the file's path, whose file_path equals the
\* key, so that the number of entries is total_files.
C4_OneEntryPerFile ==
    Summarized =>
        LET s == out.summary[1] IN
        /\ DOMAIN s.results = FileSet
        /\ \A f \in DOMAIN s.results : s.results[f].FilePath = f
        /\ Cardinality(DOMAIN s.results) = s.total_files

\* The LintWorkflow call the loop makes for a discovered file.
CallFor(file) == LintWorkflow([FilePath |-> file, Content |-> Empty])

\* C5: a file whose LintWorkflow call fails does not abort CheckAllWorkflows:
\* its entry is a result with valid = false, file_path the file's path and a
\* single diagnostic of severity "error" with message "Failed to lint: <cause>";
\* the entries of the other files are what their own calls return, and the
\* call ends with a summary and no error.
C5_FailureIsolated ==
    (pc = "loop" \/ Summarized) =>
        /\ \A i \in 1..Len(files) :
              i < idx =>
                 LET f == files[i]
                     r == CallFor(f)
                 IN  /\ f \in DOMAIN allResults
                     /\ r.failed =>
                           allResults[f] =
                              [Errors |-> << [Message |-> <<"Failed to lint: ">> \o r.err,
                                              Line |-> 0, Column |-> 0, Kind |-> "",
                                              Severity |-> "error"] >>,
                               Valid |-> FALSE,
                               FilePath |-> f]
                     /\ ~r.failed => allResults[f] = UnmarshalLintResult(r.text[1])
        /\ Summarized =>
              /\ ~out.failed
              /\ idx = Len(files) + 1
              /\ out.summary[1].results = allResults

C5_Witness ==
    /\ Summarized
    /\ \E f \in FileSet : Lookup(f).kind = "denied" /\ ~allResults[f].Valid
    /\ \E f \in FileSet : CallFor(f).failed /\ Lookup(f).kind = "file"
    /\ \E f \in FileSet : ~CallFor(f).failed /\ allResults[f].Valid

SeverityTable(kind) ==
    IF kind = "syntax-check" \/ kind = "type-check" THEN "error"
    ELSE IF kind = "shellcheck" \/ kind = "pyflakes" THEN "warning"
    ELSE "info"

C7_ReadFailure ==
    (Linted /\ req.FilePath # Empty /\ ReadFile(req.FilePath).failed) =>
        /\ ret.failed
        /\ ret.built = <<>>
        /\ ret.text = <<>>
        /\ ret.err = <<"failed to read file: ">> \o ReadFile(req.FilePath).err
        /\ EffectOps(ret) \cap {"NewLinter", "Lint"} = {}

C7_Witness ==
    /\ Linted
    /\ req.FilePath # Empty
    /\ req.Content # Empty
    /\ Lookup(req.FilePath).kind = "dir"
    /\ ret.failed
    /\ HasPrefix(ret.err, <<"failed to read file: ", "read ">>)

\* C8 as stated: every error of LintWorkflow starts with "failed to read
\* file: " or "linting failed: ", or is "either file_path or content must be
\* provided".
C8_ThreeMessages ==
    (Linted /\ ret.failed) =>
        \/ HasPrefix(ret.err, <<"failed to read file: ">>)
        \/ HasPrefix(ret.err, <<"linting failed: ">>)
        \/ ret.err = <<"either file_path or content must be provided">>

\* C8, amended: every error of LintWorkflow starts with "failed to read
\* file: ", "failed to create linter: " or "linting failed: ", or is "either
\* file_path or content must be provided".
C8_FourMessages ==
    (Linted /\ ret.failed) =>
        \/ HasPrefix(ret.err, <<"failed to read file: ">>)
        \/ HasPrefix(ret.err, <<"failed to create linter: ">>)
        \/ HasPrefix(ret.err, <<"linting failed: ">>)
        \/ ret.err = <<"either file_path or content must be provided">>

C8_Witness ==
    /\ Linted
    /\ ret.failed
    /\ cfg = "malformed"
    /\ HasPrefix(ret.err, <<"failed to create linter: ">>)

\* The engine is constructed and runs the document of the request.
EngineRuns(r) ==
    /\ r.FilePath # Empty \/ r.Content # Empty
    /\ r.FilePath # Empty => ~ReadFile(r.FilePath).failed
    /\ ~NewLinter(LinterOptions).failed
    /\ ~EngineAnswer(r).failed

\* C9: when the engine runs and returns n diagnostics, LintWorkflow succeeds
\* with n errors in the engine's order, each with the engine's message, line,
\* column and kind, and valid is false when n >= 1 and true when n = 0.
C9_EngineDiagnostics ==
    (Linted /\ EngineRuns(req)) =>
        /\ ~ret.failed
        /\ Len(ret.built) = 1
        /\ Len(ret.text) = 1
        /\ LET errs == EngineAnswer(req).errs
               r == ret.built[1]
               j == ret.text[1]
           IN  /\ r.Valid = (Len(errs) = 0)
               /\ j.valid = (Len(errs) = 0)
               /\ Len(r.Errors) = Len(errs)
               /\ Len(j.errors) = Len(errs)
               /\ \A i \in 1..Len(errs) :
                     /\ r.Errors[i].Message = errs[i].Message
                     /\ r.Errors[i].Line = errs[i].Line
                     /\ r.Errors[i].Column = errs[i].Column
                     /\ r.Errors[i].Kind = errs[i].Kind
                     /\ j.errors[i].message = errs[i].Message
                     /\ j.errors[i].line = errs[i].Line
                     /\ j.errors[i].column = errs[i].Column
                     /\ j.errors[i].kind = errs[i].Kind

C9_Witness ==
    /\ Linted
    /\ ~ret.failed
    /\ Len(ret.text[1].errors) = 2
    /\ ret.text[1].errors[1].kind = "shellcheck"
    /\ ret.text[1].errors[2].kind = "expression"
    /\ ~ret.text[1].valid

LintEffects(r) == {i \in 1..Len(r.effects) : r.effects[i].op = "Lint"}

\* C11: with no file_path and some content, the engine gets the content as
\* it is under the file name "inline.yml", no document is read from disk, and
\* the result's file_path is "inline.yml".
C11_InlineContent ==
    (Linted /\ req.FilePath = Empty /\ req.Content # Empty) =>
        /\ "ReadFile" \notin EffectOps(ret)
        /\ \A i \in LintEffects(ret) :
              /\ ret.effects[i].path = <<"inline.yml">>
              /\ ret.effects[i].data = req.Content
        /\ ~NewLinter(LinterOptions).failed => Cardinality(LintEffects(ret)) = 1
        /\ ~ret.failed =>
              /\ ret.built[1].FilePath = <<"inline.yml">>
              /\ ret.text[1].file_path = <<"inline.yml">>

C11_Witness ==
    /\ Linted
    /\ req.FilePath = Empty
    /\ req.Content = <<"syntax-check", "ok">>
    /\ ~ret.failed
    /\ \E i \in LintEffects(ret) :
          ret.effects[i] = Effect("Lint", <<"inline.yml">>, <<"syntax-check", "ok">>)
    /\ ret.text[1].file_path = <<"inline.yml">>

\* The entries of a directory, from the file system alone.
EntriesOf(dir) ==
    {n \in {DirNames(dir)[i] : i \in 1..Len(DirNames(dir))} :
        Lookup(Join(dir, n)).kind # "absent"}

WorkflowEntries(dir) ==
    {Join(dir, n) : n \in {m \in EntriesOf(dir) : m[Len(m)] \in {".yml", ".yaml"}}}

Searched == pc \in {"loop", "returned"}

\* C12: when the directory does not exist or has no entry ending in .yml or
\* .yaml, CheckAllWorkflows succeeds with the single text "No workflow files
\* found in <directory>", builds no summary and calls LintWorkflow for no file.
C12_NoWorkflowFiles ==
    (Searched /\ WorkflowEntries(directory) = {}) =>
        /\ pc = "returned"
        /\ ~out.failed
        /\ out.message = <<"No workflow files found in ">> \o directory
        /\ out.summary = <<>>
        /\ out.text = <<>>
        /\ calls = <<>>
        /\ allResults = <<>>

C12_Witness ==
    /\ pc = "returned"
    /\ arg = WfDir
    /\ EntriesOf(WfDir) # {}
    /\ WorkflowEntries(WfDir) = {}
    /\ out.message = <<"No workflow files found in ", "wf">>

\* C13: the files discovered are exactly the immediate entries of the
\* directory whose names end in ".yml" or ".yaml": other suffixes (.md, .YML)
\* and files of subdirectories are not discovered, no file is discovered
\* twice, and total_files is their number.
C13_Discovery ==
    Searched =>
        /\ FileSet = WorkflowEntries(directory)
        /\ Len(files) = Cardinality(WorkflowEntries(directory))
        /\ NestedPath \notin FileSet
        /\ Join(WfDir, <<"c", ".YML">>) \notin FileSet
        /\ Join(WfDir, <<"README", ".md">>) \notin FileSet
        /\ Summarized =>
              out.summary[1].total_files = Cardinality(WorkflowEntries(directory))

C13_Witness ==
    /\ Summarized
    /\ directory = WfDir
    /\ Lookup(NestedPath).kind = "file"
    /\ Lookup(Join(WfDir, <<"c", ".YML">>)).kind = "file"
    /\ out.summary[1].total_files = 3

RequestFor(file) == [FilePath |-> file, Content |-> Empty]

RECURSIVE DiagnosticsOf(_)
DiagnosticsOf(todo) ==
    IF todo = {} THEN 0
    ELSE LET f == CHOOSE x \in todo : TRUE
         IN  Len(EngineAnswer(RequestFor(f)).errs) + DiagnosticsOf(todo \ {f})

\* C14: when every discovered document is read and linted, with g documents
\* without diagnostics and b documents with some, total_files = g + b,
\* files_with_errors = b and total_errors is the number of diagnostics
\* reported (at least b, and 0 when b = 0).
C14_MixedDirectory ==
    (Summarized /\ \A f \in FileSet : EngineRuns(RequestFor(f))) =>
        LET s == out.summary[1]
            clean == {f \in FileSet : Len(EngineAnswer(RequestFor(f)).errs) = 0}
            bad == FileSet \ clean
        IN  /\ s.total_files = Cardinality(clean) + Cardinality(bad)
            /\ s.files_with_errors = Cardinality(bad)
            /\ s.total_errors = DiagnosticsOf(FileSet)
            /\ s.total_errors >= Cardinality(bad)
            /\ bad = {} => s.files_with_errors = 0 /\ s.total_errors = 0

C14_Witness ==
    /\ Summarized
    /\ \A f \in FileSet : EngineRuns(RequestFor(f))
    /\ out.summary[1].total_files = 3
    /\ out.summary[1].files_with_errors = 1
    /\ out.summary[1].total_errors = 2

\* C15: with an empty directory argument the directory searched is
\* ".github/workflows", and the call does what it does when that directory is
\* passed: the same files are found and the same message names it.
C15_DefaultDirectory ==
    (Searched /\ arg = Empty) =>
        /\ directory = <<".github/workflows">>
        /\ FileSet = WorkflowEntries(<<".github/workflows">>)
        /\ Len(files) = 0 =>
              out.message = <<"No workflow files found in ", ".github/workflows">>
        /\ Len(files) > 0 => out.message = Empty

C15_Witness ==
    /\ pc = "returned"
    /\ arg = Empty
    /\ out.message = <<"No workflow files found in ", ".github/workflows">>

\* C16 as stated: a request with zero-byte content and no path is forwarded
\* to the engine and ends as a successful call, with valid = false when the
\* engine reports the document ill-formed, not as a request-level error.
C16_ZeroByteInlineForwarded ==
    (Linted /\ req.FilePath = Empty /\ req.Content = Empty
        /\ ~NewLinter(LinterOptions).failed) =>
        /\ ~ret.failed
        /\ \E i \in LintEffects(ret) : ret.effects[i].data = Empty
        /\ Len(ret.built) = 1
        /\ Len(EngineAnswer(req).errs) > 0 => ~ret.built[1].Valid

\* C16, amended: zero-byte content with no path is missing input: the call
\* fails with "either file_path or content must be provided" and the engine
\* is not run; a zero-byte document read from file_path is forwarded to the
\* engine like any other, and the call succeeds with valid = false when the
\* engine reports it ill-formed.
C16_ZeroByte ==
    /\ (Linted /\ req.FilePath = Empty /\ req.Content = Empty) =>
          /\ ret.failed
          /\ ret.err = <<"either file_path or content must be provided">>
          /\ LintEffects(ret) = {}
    /\ (Linted /\ req.FilePath # Empty /\ Lookup(req.FilePath) = File(Empty)
          /\ EngineRuns(req)) =>
          /\ ~ret.failed
          /\ \E i \in LintEffects(ret) :
                ret.effects[i] = Effect("Lint", req.FilePath, Empty)
          /\ ret.built[1].Valid = (Len(EngineAnswer(req).errs) = 0)
          /\ ret.text[1].valid = (Len(EngineAnswer(req).errs) = 0)

C16_Witness ==
    /\ Linted
    /\ req.FilePath = Empty
    /\ req.Content = Empty
    /\ cfg = "good"
    /\ ret.failed
    /\ LintEffects(ret) = {}
    /\ Len(EngineAnswer(req).errs) > 0

AloneEntry(f) ==
    IF CallFor(f).failed
    THEN FailedResult(f, CallFor(f).err)
    ELSE UnmarshalLintResult(CallFor(f).text[1])

\* What CheckAllWorkflows returns for the searched directory when no other
\* call is running.
AloneSummary ==
    Summary(files, [f \in FileSet |-> AloneEntry(f)])

NewLinterEffects(r) == {i \in 1..Len(r.effects) : r.effects[i].op = "NewLinter"}

\* The engine runs of a call whose engine writes to a stream that is not the
\* discarding writer.
StreamWrites(r) ==
    {i \in LintEffects(r) :
        \E j \in NewLinterEffects(r) :
            j < i /\ r.effects[j].data # <<"io.Discard">>}

\* C19: a LintWorkflow call writes nothing to the standard output or another
\* shared stream: every engine it constructs gets the discarding writer, no
\* engine run writes to a stream, and what the call does outside itself is
\* reading (the file, the configuration file's status, two environment
\* variables) and running the engine.
C19_NoSharedOutput ==
    Linted =>
        /\ \A i \in NewLinterEffects(ret) : ret.effects[i].data = <<"io.Discard">>
        /\ StreamWrites(ret) = {}
        /\ EffectOps(ret) \subseteq {"ReadFile", "Stat", "Getenv", "NewLinter", "Lint"}
        /\ Cardinality(NewLinterEffects(ret)) <= 1

C19_Witness ==
    /\ Linted
    /\ ~ret.failed
    /\ Cardinality(NewLinterEffects(ret)) = 1
    /\ Cardinality(LintEffects(ret)) = 1
    /\ Len(ret.built[1].Errors) > 0

\* C20: encoding a single-document result or a directory summary as JSON and
\* decoding it again gives a value equal to the original in every field: the
\* result LintWorkflow built is what its payload decodes to, the entry
\* CheckAllWorkflows parses back for a file is the result that file's call
\* built, and every member of the summary's "results" decodes to the entry it
\* was written from, under the map key it was stored at.
C20_RoundTrip ==
    /\ (Linted /\ ~ret.failed) =>
          UnmarshalLintResult(MarshalLintResult(ret.built[1])) = ret.built[1]
    /\ (pc = "loop" \/ Summarized) =>
          \A f \in DOMAIN allResults :
              ~CallFor(f).failed => allResults[f] = CallFor(f).built[1]
    /\ Summarized =>
          LET s == out.summary[1]
              t == out.text[1]
          IN  /\ t.total_files = s.total_files
              /\ t.files_with_errors = s.files_with_errors
              /\ t.total_errors = s.total_errors
              /\ \A k \in DOMAIN s.results :
                    /\ t.results[k].name = k
                    /\ UnmarshalLintResult(t.results[k].value) = s.results[k]

\* The input of the request is resolved: the switch of lines 54-66 reaches
\* the engine's construction.
InputResolved(r) ==
    /\ r.FilePath # Empty \/ r.Content # Empty
    /\ r.FilePath # Empty => ~ReadFile(r.FilePath).failed

\* C21: when the engine cannot be constructed, or fails while linting,
\* LintWorkflow returns no result and an error that wraps the engine's cause
\* ("failed to create linter: <cause>", "linting failed: <cause>"); after a
\* failed construction the engine is not run; such a failure is never a
\* result with valid = false.
C21_EngineFailureAborts ==
    (Linted /\ InputResolved(req)) =>
        /\ NewLinter(LinterOptions).failed =>
              /\ ret.failed
              /\ ret.built = <<>>
              /\ ret.text = <<>>
              /\ ret.err = <<"failed to create linter: ">>
                              \o NewLinter(LinterOptions).err
              /\ LintEffects(ret) = {}
        /\ (~NewLinter(LinterOptions).failed /\ EngineAnswer(req).failed) =>
              /\ ret.failed
              /\ ret.built = <<>>
              /\ ret.text = <<>>
              /\ ret.err = <<"linting failed: ">> \o EngineAnswer(req).err
              /\ Cardinality(LintEffects(ret)) = 1
        /\ ~ret.failed =>
              /\ ~NewLinter(LinterOptions).failed
              /\ ~EngineAnswer(req).failed

C21_Witness ==
    /\ Linted
    /\ InputResolved(req)
    /\ ~NewLinter(LinterOptions).failed
    /\ EngineAnswer(req).failed
    /\ ret.failed
    /\ HasPrefix(ret.err, <<"linting failed: ">>)

\* C22: inline content that is not empty is never rejected as missing input,
\* whatever its shape (blank lines only, tab indentation): the engine is run
\* once on exactly the content of the request, and the result is built from
\* the engine's diagnostics for that content.
C22_NoPreFiltering ==
    (Linted /\ req.FilePath = Empty /\ req.Content # Empty) =>
        /\ ret.err # ErrMissingInput
        /\ ~NewLinter(LinterOptions).failed =>
              /\ Cardinality(LintEffects(ret)) = 1
              /\ \A i \in LintEffects(ret) :
                    ret.effects[i] = Effect("Lint", InlineName, req.Content)
        /\ EngineRuns(req) =>
              /\ ~ret.failed
              /\ ret.built[1] = BuildResult(InlineName, EngineAnswer(req).errs)

C22_Witness ==
    /\ Linted
    /\ req.FilePath = Empty
    /\ req.Content = <<"   ", "\\t  ">>
    /\ ~ret.failed
    /\ ~ret.built[1].Valid
    /\ \E i \in LintEffects(ret) : ret.effects[i].data = <<"   ", "\\t  ">>

\* The options of a call made with the environment and the configuration
\* file as they are now.
OptionsNow ==
    [Shellcheck |-> env["SHELLCHECK_COMMAND"],
     Pyflakes |-> env["PYFLAKES_COMMAND"],
     ConfigFile |-> IF cfg = "absent" THEN Empty ELSE ConfigFilePath,
     IgnorePatterns |-> <<>>,
     Out |-> "io.Discard"]

\* The options of a call made with what the process started with.
OptionsAtStart ==
    [Shellcheck |-> Unset, Pyflakes |-> Unset, ConfigFile |-> Empty,
     IgnorePatterns |-> <<>>, Out |-> "io.Discard"]

StatEffects(r) == {i \in 1..Len(r.effects) : r.effects[i].op = "Stat"}

GetenvEffects(r) == {i \in 1..Len(r.effects) : r.effects[i].op = "Getenv"}

\* C23 as stated: the checker paths and the presence of the configuration
\* file are read once at process start, so a call made after they changed
\* gives the engine the options of the start and returns what those options
\* give.
C23_ReadOnceAtStart ==
    (Linted /\ InputResolved(req)) =>
        /\ \A i \in NewLinterEffects(ret) :
              ret.effects[i].path = OptionsAtStart.ConfigFile
        /\ ~ret.failed =>
              ret.built[1] =
                 BuildResult(ResolvedName(req),
                     Lint(ResolvedName(req), ResolvedContent(req), OptionsAtStart).errs)
        /\ ret.failed =>
              ret.err = <<"linting failed: ">> \o
                 Lint(ResolvedName(req), ResolvedContent(req), OptionsAtStart).err

\* C23, amended: the checker paths and the presence of the configuration
\* file are read on every call (one os.Stat and two os.Getenv per call that
\* reaches the engine), so a call made after they changed gives the engine
\* the options of the time of the call and returns what those options give.
C23_ReadEveryCall ==
    (Linted /\ InputResolved(req)) =>
        /\ Cardinality(StatEffects(ret)) = 1
        /\ Cardinality(GetenvEffects(ret)) = 2
        /\ Cardinality(NewLinterEffects(ret)) = 1
        /\ \A i \in NewLinterEffects(ret) :
              ret.effects[i].path = OptionsNow.ConfigFile
        /\ cfg \in {"malformed", "denied"} =>
              /\ ret.failed
              /\ HasPrefix(ret.err, <<"failed to create linter: ">>)
        /\ ~ret.failed =>
              ret.built[1] =
                 BuildResult(ResolvedName(req),
                     Lint(ResolvedName(req), ResolvedContent(req), OptionsNow).errs)
        /\ (ret.failed /\ cfg \notin {"malformed", "denied"}) =>
              ret.err = <<"linting failed: ">> \o
                 Lint(ResolvedName(req), ResolvedContent(req), OptionsNow).err

C23_Witness ==
    /\ Linted
    /\ req.FilePath = Empty
    /\ req.Content = <<"shellcheck">>
    /\ env # StartupEnv
    /\ cfg = "good"
    /\ ~ret.failed
    /\ Len(ret.built[1].Errors) = 1
    /\ ret.built[1].Errors[1].Kind = "shellcheck"

Completed == {files[i] : i \in 1..Len(calls)}

\* While the loop runs: entries exist for exactly the files whose validation
\* has completed, each is that file's whole entry, and no counter has been
\* computed.  In the returned summary: every discovered file has completed
\* and the counters are those of the whole map.
MergeState ==
    /\ pc = "loop" =>
          /\ Len(calls) = idx - 1
          /\ \A i \in 1..Len(calls) : calls[i] = files[i]
          /\ DOMAIN allResults = Completed
          /\ \A f \in DOMAIN allResults : allResults[f] = AloneEntry(f)
          /\ out = NoOutput
    /\ Summarized =>
          /\ Len(calls) = Len(files)
          /\ Completed = FileSet
          /\ out.summary[1].results = [f \in FileSet |-> AloneEntry(f)]
          /\ out.summary[1] = Summary(files, [f \in FileSet |-> AloneEntry(f)])
          /\ out.text[1] = MarshalSummary(out.summary[1])

\* A step that writes the map while the loop runs completes one validation
\* and writes the key of that file only; a step that computes the counters
\* leaves the map as it is.
MergeStep ==
    /\ (pc = "loop" /\ allResults' # allResults) =>
          /\ calls' = Append(calls, files[idx])
          /\ DOMAIN allResults' = DOMAIN allResults \cup {files[idx]}
          /\ files[idx] \notin DOMAIN allResults
          /\ \A k \in DOMAIN allResults : allResults'[k] = allResults[k]
    /\ (pc = "loop" /\ out' # out) =>
          /\ allResults' = allResults
          /\ DOMAIN allResults = FileSet

\* C25: in a CheckAllWorkflows call the entry of a document is written only
\* when its validation has completed, each document writes its own key only,
\* and the counters are computed only after the entries of all discovered
\* documents are written; the returned summary has no partial entry or
\* counter.
C25_MergeAfterCompletion == [][MergeStep]_vars /\ []MergeState

C25_Witness ==
    /\ Summarized
    /\ Len(files) = 3
    /\ Len(calls) = 3
    /\ out.summary[1].files_with_errors >= 1
    /\ out.summary[1].files_with_errors < 3

\* The files whose validation had completed when the context became done.
CompletedAtCancel == {files[i] : i \in 1..ctx[1]}

\* C26: when the caller's deadline or cancellation fires part-way through the
\* discovered documents, no further validation is started, the entries of the
\* documents completed by then stay as they were, and the summary has exactly
\* the documents that had completed.
C26_CancelAbandons ==
    (ctx # NotDone /\ (pc = "loop" \/ Summarized)) =>
        /\ Len(calls) = ctx[1]
        /\ DOMAIN allResults = CompletedAtCancel
        /\ \A f \in DOMAIN allResults : allResults[f] = AloneEntry(f)
        /\ Summarized =>
              /\ DOMAIN out.summary[1].results = CompletedAtCancel
              /\ out.summary[1].total_files = ctx[1]

\* The discovered files in the order of lines 144-151.
GlobOrder == Glob(directory, ".yml") \o Glob(directory, ".yaml")

\* The summary of the files in the order of lines 144-151.
GlobOrderSummary ==
    Summary(GlobOrder, [f \in {GlobOrder[i] : i \in 1..Len(GlobOrder)} |-> AloneEntry(f)])

\* C27: the summary does not depend on the order of the discovered files:
\* whatever the order the loop gets them in, total_files, files_with_errors,
\* total_errors, the results mapping and the encoded payload are those of the
\* same files in the order of discovery.
C27_OrderIndependent ==
    Summarized =>
        /\ out.summary[1].total_files = GlobOrderSummary.total_files
        /\ out.summary[1].files_with_errors = GlobOrderSummary.files_with_errors
        /\ out.summary[1].total_errors = GlobOrderSummary.total_errors
        /\ out.summary[1].results = GlobOrderSummary.results
        /\ out.text[1] = MarshalSummary(GlobOrderSummary)

C27_Witness ==
    /\ Summarized
    /\ Len(files) = 3
    /\ files[1] = GlobOrder[3]
    /\ files[3] = GlobOrder[1]
    /\ out.summary[1].results[files[1]].Valid
    /\ ~out.summary[1].results[files[3]].Valid
    /\ out.summary[1].total_errors >= 2

\* C28: with both file_path and content given and the file unreadable,
\* LintWorkflow fails with "failed to read file: <cause>" and neither
\* constructs nor runs the engine on the inline content; with a file_path
\* given, the call returns what it returns for that path with no content.
C28_NoFallback ==
    (Linted /\ req.FilePath # Empty) =>
        /\ ret = LintWorkflow([FilePath |-> req.FilePath, Content |-> Empty])
        /\ (req.Content # Empty /\ ReadFile(req.FilePath).failed) =>
              /\ ret.failed
              /\ ret.built = <<>>
              /\ ret.err = <<"failed to read file: ">> \o ReadFile(req.FilePath).err
              /\ EffectOps(ret) = {"ReadFile"}
              /\ \A i \in 1..Len(ret.effects) : ret.effects[i].path = req.FilePath

C28_Witness ==
    /\ Linted
    /\ req.FilePath = PathA
    /\ Len(req.Content) = 2
    /\ Lookup(PathA) = Absent
    /\ ret.failed
    /\ HasPrefix(ret.err, <<"failed to read file: ">>)

\* C29: CheckAllWorkflows never returns an error for a failure of the file
\* system or of the engine.  The error of the directory search is dropped:
\* a directory that is a malformed glob pattern gives the text "No workflow
\* files found in <directory>"; the failure of a file's LintWorkflow call
\* becomes that file's entry; and the call ends with the text or with a
\* summary and its payload.
C29_NoOperationError ==
    pc = "returned" =>
        /\ ~out.failed
        /\ out.err = Empty
        /\ Len(files) = 0 =>
              /\ out.message = <<"No workflow files found in ">> \o directory
              /\ out.summary = <<>>
        /\ GlobError(directory, ".yml") # Empty =>
              /\ Len(files) = 0
              /\ calls = <<>>
        /\ Len(files) > 0 =>
              /\ out.message = Empty
              /\ Len(out.summary) = 1
              /\ Len(out.text) = 1
              /\ \A f \in FileSet :
                    CallFor(f).failed =>
                       /\ f \in DOMAIN out.summary[1].results
                       /\ ~out.summary[1].results[f].Valid
                       /\ out.summary[1].results[f].Errors[1].Message =
                             <<"Failed to lint: ">> \o CallFor(f).err

C29_Witness ==
    /\ pc = "returned"
    /\ arg = BadPatternDir
    /\ GlobError(directory, ".yml") = <<"syntax error in pattern">>
    /\ Lookup(PathW).kind = "file"
    /\ ~out.failed
    /\ out.message = <<"No workflow files found in ", "[">>

\* LintWorkflow has been called once for each of the first idx - 1 discovered
\* files, in their order, whether the context is done or not and whether
\* earlier calls failed or not; the files are the *.yml matches followed by
\* the *.yaml matches; the summary covers every discovered file.
SequentialFanOut ==
    /\ pc = "loop" =>
          /\ idx \in 1..(Len(files) + 1)
          /\ calls = SubSeq(files, 1, idx - 1)
    /\ (pc = "loop" \/ Summarized) =>
          files = Glob(directory, ".yml") \o Glob(directory, ".yaml")
    /\ Summarized =>
          /\ calls = files
          /\ DOMAIN out.summary[1].results = FileSet
          /\ out.summary[1].total_files = Len(files)

====
